---- MODULE Spec2Model ----
(***************************************************************************)
(* GigaScape integration of SuperSplat (src/src/gigascape-integration.ts). *)
(* The module-level gsConfig, the 'gigascape:save' handler registered by   *)
(* initGigaScapeIntegration, and the three HTTP phases of a save attempt.  *)
(* Each await of the handler is a step boundary: an attempt is suspended   *)
(* at its pc while other attempts, and the host, take steps.               *)
(***************************************************************************)
EXTENDS Integers, Sequences, FiniteSets, TLC

\* ------------------------------------------------------------------ bounds
\* Invocations of the save action in one page load.
MaxAttempts == 2

\* ------------------------------------------------------- JavaScript values
\* A parsed JSON value: an object with string members, or null.
Undefined == "<undefined>"
NullValue == [t |-> "null", f |-> <<>>]
Obj(fields) == [t |-> "obj", f |-> fields]

\* v.k : a member of an object, undefined when it is missing.
Member(v, k) == IF k \in DOMAIN v.f THEN v.f[k] ELSE Undefined
\* JavaScript truthiness of a string-or-undefined value.
Truthy(s) == s \notin {Undefined, ""}

\* ----------------------------------------------------------- the page URL
\* window.location.search, as far as the key gsConfig goes: whether the key
\* is present and its raw value.
CfgFull == "eyJzcGxhdElkIjoiczEiLCJ1c2VySWQiOiJ1MSIsImFwaU9yaWdpbiI6Imh0dHBzOi8vYXBpLmdzIiwiYXV0aFRva2VuIjoidG9rIn0="
CfgNoToken == "eyJzcGxhdElkIjoiczEiLCJ1c2VySWQiOiJ1MSIsImFwaU9yaWdpbiI6Imh0dHBzOi8vYXBpLmdzIn0="
CfgEmptySplatId == "eyJzcGxhdElkIjoiIiwidXNlcklkIjoidTEiLCJhcGlPcmlnaW4iOiJodHRwczovL2FwaS5ncyIsImF1dGhUb2tlbiI6InRvayJ9"
CfgNoOrigin == "eyJzcGxhdElkIjoiczEiLCJ1c2VySWQiOiJ1MSIsImF1dGhUb2tlbiI6InRvayJ9"
CfgNull == "bnVsbA=="
CfgNotJson == "bm90IGpzb24="
CfgNotBase64 == "%%%"

QueryValues == {CfgFull, CfgNoToken, CfgEmptySplatId, CfgNoOrigin, CfgNull,
                CfgNotJson, CfgNotBase64, ""}
Queries == {[has |-> FALSE, value |-> ""]}
           \cup {[has |-> TRUE, value |-> v] : v \in QueryValues}

\* atob: the decoded text, or a thrown InvalidCharacterError.
Atob(s) ==
    CASE s = CfgFull -> [threw |-> FALSE, text |-> "{\"splatId\":\"s1\",\"userId\":\"u1\",\"apiOrigin\":\"https://api.gs\",\"authToken\":\"tok\"}"]
      [] s = CfgNoToken -> [threw |-> FALSE, text |-> "{\"splatId\":\"s1\",\"userId\":\"u1\",\"apiOrigin\":\"https://api.gs\"}"]
      [] s = CfgEmptySplatId -> [threw |-> FALSE, text |-> "{\"splatId\":\"\",\"userId\":\"u1\",\"apiOrigin\":\"https://api.gs\",\"authToken\":\"tok\"}"]
      [] s = CfgNoOrigin -> [threw |-> FALSE, text |-> "{\"splatId\":\"s1\",\"userId\":\"u1\",\"authToken\":\"tok\"}"]
      [] s = CfgNull -> [threw |-> FALSE, text |-> "null"]
      [] s = CfgNotJson -> [threw |-> FALSE, text |-> "not json"]
      [] s = "" -> [threw |-> FALSE, text |-> ""]
      [] OTHER -> [threw |-> TRUE, text |-> ""]

\* Response bodies the servers send.
BodyNone == ""
BodyEmptyObject == "{}"
BodyTokenExpired == "{\"error\":\"token expired\"}"
BodyEmptyError == "{\"error\":\"\"}"
\* The n-th ticket the API issues: a signed URL and a storage path of its own.
TicketUrl(n) == "https://gcs/u" \o ToString(n)
TicketPath(n) == "edits/p" \o ToString(n) \o ".ply"
BodyTicket(n) ==
    "{\"uploadUrl\":\"" \o TicketUrl(n) \o "\",\"storagePath\":\"" \o TicketPath(n) \o "\"}"
TicketNumbers == 1..9

\* JSON.parse / Response.json(): the value, or a thrown SyntaxError.
JsonParse(text) ==
    CASE text = "{\"splatId\":\"s1\",\"userId\":\"u1\",\"apiOrigin\":\"https://api.gs\",\"authToken\":\"tok\"}" ->
            [threw |-> FALSE, v |-> Obj([splatId |-> "s1", userId |-> "u1", apiOrigin |-> "https://api.gs", authToken |-> "tok"])]
      [] text = "{\"splatId\":\"s1\",\"userId\":\"u1\",\"apiOrigin\":\"https://api.gs\"}" ->
            [threw |-> FALSE, v |-> Obj([splatId |-> "s1", userId |-> "u1", apiOrigin |-> "https://api.gs"])]
      [] text = "{\"splatId\":\"\",\"userId\":\"u1\",\"apiOrigin\":\"https://api.gs\",\"authToken\":\"tok\"}" ->
            [threw |-> FALSE, v |-> Obj([splatId |-> "", userId |-> "u1", apiOrigin |-> "https://api.gs", authToken |-> "tok"])]
      [] text = "{\"splatId\":\"s1\",\"userId\":\"u1\",\"authToken\":\"tok\"}" ->
            [threw |-> FALSE, v |-> Obj([splatId |-> "s1", userId |-> "u1", authToken |-> "tok"])]
      [] text = "null" -> [threw |-> FALSE, v |-> NullValue]
      [] text = BodyEmptyObject -> [threw |-> FALSE, v |-> Obj(<<>>)]
      [] text = BodyTokenExpired -> [threw |-> FALSE, v |-> Obj([error |-> "token expired"])]
      [] text = BodyEmptyError -> [threw |-> FALSE, v |-> Obj([error |-> ""])]
      [] \E n \in TicketNumbers : text = BodyTicket(n) ->
            LET n == CHOOSE m \in TicketNumbers : text = BodyTicket(m)
            IN  [threw |-> FALSE, v |-> Obj([uploadUrl |-> TicketUrl(n), storagePath |-> TicketPath(n)])]
      [] OTHER -> [threw |-> TRUE, v |-> NullValue]

\* The try block of parseGsConfig: atob, JSON.parse and the member reads of
\* the validation may throw; otherwise it yields the config, or null when a
\* required field is missing or falsy.
TryParseGsConfig(encoded) ==
    LET decoded == Atob(encoded)
        parsed == JsonParse(decoded.text)
        config == parsed.v
    IN  IF decoded.threw \/ parsed.threw \/ config.t = "null"
        THEN [threw |-> TRUE, v |-> NullValue]
        ELSE IF ~Truthy(Member(config, "splatId"))
                \/ ~Truthy(Member(config, "apiOrigin"))
                \/ ~Truthy(Member(config, "authToken"))
        THEN [threw |-> FALSE, v |-> NullValue]
        ELSE [threw |-> FALSE, v |-> config]

\* parseGsConfig with a catch block that lets the error out.
parseGsConfigCallRethrows(query) ==
    LET encoded == IF query.has THEN query.value ELSE Undefined
    IN  IF ~Truthy(encoded) THEN [raised |-> FALSE, v |-> NullValue]
        ELSE [raised |-> TryParseGsConfig(encoded).threw, v |-> TryParseGsConfig(encoded).v]

\* A call of parseGsConfig: what it returns and whether it raises. The catch
\* block turns every throw of the try block into a return of null.
parseGsConfigCall(query) ==
    LET encoded == IF query.has THEN query.value ELSE Undefined
    IN  IF ~Truthy(encoded) THEN [raised |-> FALSE, v |-> NullValue]
        ELSE [raised |-> FALSE, v |-> TryParseGsConfig(encoded).v]

\* parseGsConfig with the validation of authToken left out.
parseGsConfigNoTokenCheck(query) ==
    LET encoded == IF query.has THEN query.value ELSE Undefined
        decoded == Atob(encoded)
        parsed == JsonParse(decoded.text)
        config == parsed.v
    IN  IF ~Truthy(encoded) THEN NullValue
        ELSE IF decoded.threw THEN NullValue
        ELSE IF parsed.threw THEN NullValue
        ELSE IF config.t = "null" THEN NullValue
        ELSE IF ~Truthy(Member(config, "splatId"))
                \/ ~Truthy(Member(config, "apiOrigin")) THEN NullValue
        ELSE config

\* parseGsConfig: the config, or null (every failure is caught).
parseGsConfig(query) ==
    LET encoded == IF query.has THEN query.value ELSE Undefined
        decoded == Atob(encoded)
        parsed == JsonParse(decoded.text)
        config == parsed.v
    IN  IF ~Truthy(encoded) THEN NullValue
        ELSE IF decoded.threw THEN NullValue
        ELSE IF parsed.threw THEN NullValue
        ELSE IF config.t = "null" THEN NullValue
        ELSE IF ~Truthy(Member(config, "splatId"))
                \/ ~Truthy(Member(config, "apiOrigin"))
                \/ ~Truthy(Member(config, "authToken")) THEN NullValue
        ELSE config

\* isGigaScapeMode answering by whether the value of the key resolves.
isGigaScapeModeParsed(query) == parseGsConfig(query) # NullValue

\* isGigaScapeMode: the key is present.
isGigaScapeMode(query) == query.has


\* ------------------------------------------------------------- the scene
\* Splat elements of the host's scene: visible flag and splat count.
Splat(v, n) == [visible |-> v, numSplats |-> n]
Scenes == { <<>>,
            <<Splat(FALSE, 2)>>,
            <<Splat(TRUE, 0)>>,
            <<Splat(TRUE, 0), Splat(FALSE, 3), Splat(TRUE, 1)>> }

\* serializeSceneToPly without its filter on numSplats.
ExportableSplatsVisibleOnly(sc) == SelectSeq(sc, LAMBDA sp : sp.visible)

\* The two filters of serializeSceneToPly.
ExportableSplats(sc) == SelectSeq(sc, LAMBDA sp : sp.visible /\ sp.numSplats > 0)

\* The bytes the serializer produces for the scene: a Uint8Array of
\* byteLength bytes over a buffer of bufferLength bytes.
Artifacts == { [byteLength |-> 4, bufferLength |-> 4],
               [byteLength |-> 4, bufferLength |-> 8] }
NoData == [byteLength |-> 0, bufferLength |-> 0]
\* How a call of serializePly ends: the artifact is in memFs.results under
\* 'output.ply', or nothing is, or the call rejects with an Error.
SerializeOutcomes ==
    {[kind |-> "output", message |-> ""],
     [kind |-> "nooutput", message |-> ""],
     [kind |-> "rejected", message |-> ""],
     [kind |-> "rejected", message |-> "out of memory"]}

\* ------------------------------------------------------------- the network
\* What a fetch settles with: a rejection (network error) or a response.
FailureStatuses == {403, 500}
Rejected == [rejected |-> TRUE, status |-> 0, body |-> BodyNone]
Response(s, b) == [rejected |-> FALSE, status |-> s, body |-> b]
\* Response.ok
Ok(res) == res.status >= 200 /\ res.status <= 299

\* The outcomes of the three fetches of attempt a. A success of phase 1
\* carries the ticket issued to that request, or a body that does not
\* parse; a failure carries a JSON object, with or without an error
\* string, or a body that does not parse.
Phase1Outcomes(a) == {Rejected, Response(200, BodyTicket(a)), Response(200, BodyNone)}
    \cup {Response(s, b) : s \in FailureStatuses,
                           b \in {BodyNone, BodyEmptyObject, BodyTokenExpired, BodyEmptyError}}
Phase2Outcomes == {Rejected, Response(200, BodyNone)}
    \cup {Response(s, b) : s \in FailureStatuses, b \in {BodyNone, BodyTokenExpired}}
Phase3Outcomes == {Rejected, Response(200, BodyEmptyObject)}
    \cup {Response(s, b) : s \in FailureStatuses,
                           b \in {BodyNone, BodyEmptyObject, BodyTokenExpired}}

FetchFailedMessage == "Failed to fetch"
JsonSyntaxMessage == "Unexpected end of JSON input"
NullConfigMessage == "Cannot read properties of null (reading 'apiOrigin')"

\* A request handed to fetch.
Request(phase, method, url, auth, ctype, body) ==
    [phase |-> phase, method |-> method, url |-> url, auth |-> auth,
     contentType |-> ctype, body |-> body]
NoAuth == "<none>"


\* ------------------------------------------------------ the three phases
\* The result of a phase: it threw an Error with a message, or returned.
Threw(msg) == [threw |-> TRUE, message |-> msg, uploadUrl |-> Undefined, storagePath |-> Undefined]
Returned(url, path) == [threw |-> FALSE, message |-> "", uploadUrl |-> url, storagePath |-> path]

\* res.json().catch(() => ({})): no message of its own for a body that does not parse.
ErrorBodyEmptyFallback(res) ==
    LET parsed == JsonParse(res.body)
    IN  IF parsed.threw THEN Obj(<<>>) ELSE parsed.v

\* res.json().catch(() => ({ error: `HTTP ${res.status}` }))
ErrorBody(res) ==
    LET parsed == JsonParse(res.body)
    IN  IF parsed.threw THEN Obj([error |-> "HTTP " \o ToString(res.status)])
        ELSE parsed.v

\* The templated message alone, err.error ignored.
ErrorMessageTemplateOnly(res, prefix) ==
    prefix \o " (" \o ToString(res.status) \o ")"

\* err.error || `<prefix> (${res.status})`
ErrorMessage(res, prefix) ==
    LET err == ErrorBody(res)
    IN  IF Truthy(Member(err, "error")) THEN Member(err, "error")
        ELSE prefix \o " (" \o ToString(res.status) \o ")"

\* getUploadUrl: the request it issues ...
getUploadUrlRequest(config, fileSize) ==
    Request(1, "POST", Member(config, "apiOrigin") \o "/api/supersplat/upload-url",
            "Bearer " \o Member(config, "authToken"), "application/json",
            [splatId |-> Member(config, "splatId"), fileSize |-> fileSize,
             storagePath |-> Undefined, bytes |-> 0])

\* getUploadUrl without its check of res.ok.
getUploadUrlResultNoOkCheck(res) ==
    IF res.rejected THEN Threw(FetchFailedMessage)
    ELSE LET parsed == JsonParse(res.body)
         IN  IF parsed.threw THEN Threw(JsonSyntaxMessage)
             ELSE Returned(Member(parsed.v, "uploadUrl"), Member(parsed.v, "storagePath"))

\* ... and what it makes of the outcome of the fetch.
getUploadUrlResult(res) ==
    IF res.rejected THEN Threw(FetchFailedMessage)
    ELSE IF ~Ok(res) THEN Threw(ErrorMessage(res, "Failed to get upload URL"))
    ELSE LET parsed == JsonParse(res.body)
         IN  IF parsed.threw THEN Threw(JsonSyntaxMessage)
             ELSE Returned(Member(parsed.v, "uploadUrl"), Member(parsed.v, "storagePath"))

\* uploadToGcs: the body is a Blob over the whole underlying buffer.
\* uploadToGcs sending the session's Authorization header with the PUT.
uploadToGcsRequestWithAuth(uploadUrl, data) ==
    Request(2, "PUT", uploadUrl, "Bearer tok", "application/octet-stream",
            [splatId |-> Undefined, fileSize |-> 0, storagePath |-> Undefined,
             bytes |-> data.bufferLength])

uploadToGcsRequest(uploadUrl, data) ==
    Request(2, "PUT", uploadUrl, NoAuth, "application/octet-stream",
            [splatId |-> Undefined, fileSize |-> 0, storagePath |-> Undefined,
             bytes |-> data.bufferLength])

\* uploadToGcs reading the error body the way getUploadUrl does.
uploadToGcsResultReadsBody(res) ==
    IF res.rejected THEN Threw(FetchFailedMessage)
    ELSE IF ~Ok(res) THEN Threw(ErrorMessage(res, "Upload to GCS failed"))
    ELSE Returned(Undefined, Undefined)

\* uploadToGcs without its check of res.ok.
uploadToGcsResultNoOkCheck(res) ==
    IF res.rejected THEN Threw(FetchFailedMessage)
    ELSE Returned(Undefined, Undefined)

uploadToGcsResult(res) ==
    IF res.rejected THEN Threw(FetchFailedMessage)
    ELSE IF ~Ok(res) THEN Threw("Upload to GCS failed (" \o ToString(res.status) \o ")")
    ELSE Returned(Undefined, Undefined)

\* notifySaveComplete
notifySaveCompleteRequest(config, storagePath) ==
    Request(3, "POST", Member(config, "apiOrigin") \o "/api/supersplat/save-complete",
            "Bearer " \o Member(config, "authToken"), "application/json",
            [splatId |-> Member(config, "splatId"), fileSize |-> 0,
             storagePath |-> storagePath, bytes |-> 0])

\* notifySaveComplete failing the way uploadToGcs does, the body unread.
notifySaveCompleteResultStatusOnly(res) ==
    IF res.rejected THEN Threw(FetchFailedMessage)
    ELSE IF ~Ok(res) THEN Threw("Save notification failed (" \o ToString(res.status) \o ")")
    ELSE Returned(Undefined, Undefined)

notifySaveCompleteResult(res) ==
    IF res.rejected THEN Threw(FetchFailedMessage)
    ELSE IF ~Ok(res) THEN Threw(ErrorMessage(res, "Save notification failed"))
    ELSE Returned(Undefined, Undefined)

\* ---------------------------------------------------------------- modals
Modal(type, header, message) == [type |-> type, header |-> header, message |-> message]
SuccessModal == Modal("info", "Saved to GigaScape",
                      "Your edited splat has been saved. Return to your library to create tiles.")
\* message: error.message || 'Unknown error while saving to GigaScape'
ErrorModal(message) ==
    Modal("error", "Save Failed",
          IF Truthy(message) THEN message ELSE "Unknown error while saving to GigaScape")

\* showPopup settles: the host resolves it, or it rejects with an Error.
PopupOutcomes == {[rejected |-> FALSE, message |-> ""],
                  [rejected |-> TRUE, message |-> "popup unavailable"]}


\* ----------------------------------------------------------------- state
VARIABLES
    query,       \* the gsConfig key of window.location.search
    scene,       \* the host's splat elements
    plyOutput,   \* the bytes the serializer produces for this scene
    gsConfig,    \* the module-level config (NullValue: null)
    registered,  \* 'gigascape:save' is registered on the event bus
    initialized, \* initGigaScapeIntegration has been called
    invoked,     \* invocations of 'gigascape:save' by the host so far
    attempts,    \* the handler's run for each invocation
    constructions, \* history: times gsConfig was constructed (0, 1, 2 for more),
                 \* kept by SpecLifecycle alone
    initRaised,  \* a call of initGigaScapeIntegration ended by an exception
    modeResults  \* history: what the last call of isGigaScapeMode returned,
                 \* kept by SpecMode alone

vars == <<query, scene, plyOutput, gsConfig, registered, initialized, invoked,
          attempts, constructions, initRaised, modeResults>>

AttemptIds == 1..MaxAttempts

\* A run of the handler: its position, its locals (data, uploadUrl,
\* storagePath) and what it has done so far: the events it fired, the
\* requests it handed to fetch and how each settled, the errors its catch
\* block received, the modals it asked for and how each showPopup settled.
IdleAttempt ==
    [pc |-> "idle", fired |-> <<>>, serializerCalls |-> 0, data |-> NoData,
     uploadUrl |-> Undefined, storagePath |-> Undefined,
     requests |-> <<>>, responses |-> <<>>, caught |-> <<>>, modals |-> <<>>,
     popupResults |-> <<>>]

Init ==
    /\ query \in Queries
    /\ scene \in Scenes
    /\ plyOutput \in Artifacts
    /\ gsConfig = NullValue
    /\ registered = FALSE
    /\ initialized = FALSE
    /\ invoked = 0
    /\ attempts = [a \in AttemptIds |-> IdleAttempt]
    /\ constructions = 0
    /\ initRaised = FALSE
    /\ modeResults = <<>>

\* initGigaScapeIntegration without its early return.
RegistersHandlerAlways(config) == TRUE

\* if (!gsConfig) return;  the handler is registered otherwise.
RegistersHandler(config) == config.t # "null"

\* A resolver that consumes the key: a call after the first finds none.
AssignConfigConsumesKey ==
    /\ initialized' = TRUE
    /\ gsConfig' = IF initialized THEN NullValue ELSE parseGsConfig(query)
    /\ registered' = (registered \/ RegistersHandler(gsConfig'))
    /\ initRaised' = initRaised
    /\ UNCHANGED <<query, scene, plyOutput, invoked, attempts, modeResults>>

\* The body of initGigaScapeIntegration: gsConfig = parseGsConfig(), the
\* early return, the registration of the handler.
\* An exception of parseGsConfig would leave both as they were.
AssignConfig ==
    /\ initialized' = TRUE
    /\ IF parseGsConfigCall(query).raised
       THEN /\ initRaised' = TRUE
            /\ UNCHANGED <<gsConfig, registered>>
       ELSE /\ initRaised' = initRaised
            /\ gsConfig' = parseGsConfig(query)
            /\ registered' = (registered \/ RegistersHandler(gsConfig'))
    /\ UNCHANGED <<query, scene, plyOutput, invoked, attempts, modeResults>>

\* initGigaScapeIntegration; the host may call it any number of times.
initGigaScapeIntegration ==
    /\ AssignConfig
    /\ UNCHANGED constructions

\* The same call with the constructions counted.
initGigaScapeIntegrationCounted ==
    /\ AssignConfig
    /\ constructions' = IF constructions < 2 THEN constructions + 1 ELSE constructions

\* A catch block that retries once: the first failure of a network phase
\* issues that phase's request again instead of showing the error.
CatchRetriesOnce(att, message) ==
    IF att.caught = <<>> /\ att.pc \in {"phase1", "phase2", "phase3"}
    THEN [att EXCEPT !.caught = Append(@, message),
                     !.requests = Append(@, att.requests[Len(att.requests)])]
    ELSE [att EXCEPT !.caught = Append(@, message),
                     !.modals = Append(@, ErrorModal(message)),
                     !.pc = "popupError"]

\* catch (error) { await events.invoke('showPopup', { type: 'error', ... }) }
Catch(att, message) ==
    [att EXCEPT !.caught = Append(@, message),
                !.modals = Append(@, ErrorModal(message)),
                !.pc = "popupError"]

\* stopSpinner fired as the last statement of the try block, not in a finally.
FinallyOnlyAfterTry(att, settled) ==
    IF att.caught = <<>> THEN [att EXCEPT !.fired = Append(@, "stopSpinner"), !.pc = settled]
    ELSE [att EXCEPT !.pc = settled]

\* finally { events.fire('stopSpinner') }, then the handler's promise settles.
Finally(att, settled) ==
    [att EXCEPT !.fired = Append(@, "stopSpinner"), !.pc = settled]

\* The calls of the try block, up to the await each one suspends at.
CallGetUploadUrl(att) ==
    IF gsConfig.t = "null" THEN Catch(att, NullConfigMessage)
    ELSE [att EXCEPT !.requests = Append(@, getUploadUrlRequest(gsConfig, att.data.byteLength)),
                     !.pc = "phase1"]

\* uploadToGcs called without await: the save-complete POST is issued at
\* once, while the PUT is still pending.
CallUploadToGcsNotAwaited(att) ==
    [att EXCEPT !.requests = Append(Append(@, uploadToGcsRequest(att.uploadUrl, att.data)),
                                    notifySaveCompleteRequest(gsConfig, att.storagePath)),
                !.pc = "phase3"]

CallUploadToGcs(att) ==
    [att EXCEPT !.requests = Append(@, uploadToGcsRequest(att.uploadUrl, att.data)),
                !.pc = "phase2"]

\* storagePath kept in one module-level variable, overwritten by the latest
\* ticket, instead of a local of the handler.
CallNotifySaveCompleteSharedPath(att) ==
    LET holders == {b \in DOMAIN attempts : attempts[b].storagePath # Undefined}
        latest == CHOOSE b \in holders : \A c \in holders : c <= b
    IN  IF gsConfig.t = "null" THEN Catch(att, NullConfigMessage)
        ELSE [att EXCEPT !.requests = Append(@, notifySaveCompleteRequest(gsConfig, attempts[latest].storagePath)),
                         !.pc = "phase3"]

CallNotifySaveComplete(att) ==
    IF gsConfig.t = "null" THEN Catch(att, NullConfigMessage)
    ELSE [att EXCEPT !.requests = Append(@, notifySaveCompleteRequest(gsConfig, att.storagePath)),
                     !.pc = "phase3"]

\* The success showPopup invoked without await: the handler goes on to its
\* finally block while the modal is open.
CallShowSuccessNotAwaited(att) ==
    Finally([att EXCEPT !.modals = Append(@, SuccessModal)], "returned")

CallShowSuccess(att) ==
    [att EXCEPT !.modals = Append(@, SuccessModal), !.pc = "popupInfo"]

\* serializeSceneToPly up to its await: the filters and the empty check.
CallSerializeSceneToPly(att) ==
    IF Len(ExportableSplats(scene)) = 0 THEN Catch(att, "No splats to save")
    ELSE [att EXCEPT !.serializerCalls = @ + 1, !.pc = "serializing"]

\* The handler behind an at-most-one-in-flight guard: an invocation made
\* while another attempt is unsettled returns at once.
SaveGuarded ==
    /\ invoked < MaxAttempts
    /\ invoked' = invoked + 1
    /\ attempts' =
         IF registered /\ \A b \in AttemptIds : attempts[b].pc \in {"idle", "returned", "threw"}
         THEN [attempts EXCEPT ![invoked + 1] =
                 CallSerializeSceneToPly([@ EXCEPT !.fired = <<"startSpinner">>])]
         ELSE attempts
    /\ UNCHANGED <<query, scene, plyOutput, constructions, initRaised, modeResults, gsConfig, registered, initialized>>

\* The host invokes 'gigascape:save'. Without a registered handler nothing
\* of this module runs.
Save ==
    /\ invoked < MaxAttempts
    /\ invoked' = invoked + 1
    /\ attempts' =
         IF registered
         THEN [attempts EXCEPT ![invoked + 1] =
                 CallSerializeSceneToPly([@ EXCEPT !.fired = <<"startSpinner">>])]
         ELSE attempts
    /\ UNCHANGED <<query, scene, plyOutput, constructions, initRaised, modeResults, gsConfig, registered, initialized>>

\* serializePly settles.
SerializeSettles(a, out) ==
    /\ attempts[a].pc = "serializing"
    /\ attempts' = [attempts EXCEPT ![a] =
         CASE out.kind = "rejected" -> Catch(@, out.message)
           [] out.kind = "nooutput" -> Catch(@, "PLY serialization produced no output")
           [] OTHER -> CallGetUploadUrl([@ EXCEPT !.data = plyOutput])]
    /\ UNCHANGED <<query, scene, plyOutput, constructions, initRaised, modeResults, gsConfig, registered, initialized, invoked>>

\* The upload-url POST settles.
Phase1Settles(a, res) ==
    /\ attempts[a].pc = "phase1"
    /\ LET r == getUploadUrlResult(res)
           att == [attempts[a] EXCEPT !.responses = Append(@, res)]
       IN  attempts' = [attempts EXCEPT ![a] =
             IF r.threw THEN Catch(att, r.message)
             ELSE CallUploadToGcs([att EXCEPT !.uploadUrl = r.uploadUrl,
                                              !.storagePath = r.storagePath])]
    /\ UNCHANGED <<query, scene, plyOutput, constructions, initRaised, modeResults, gsConfig, registered, initialized, invoked>>

\* The PUT to the signed URL settles.
Phase2Settles(a, res) ==
    /\ attempts[a].pc = "phase2"
    /\ LET r == uploadToGcsResult(res)
           att == [attempts[a] EXCEPT !.responses = Append(@, res)]
       IN  attempts' = [attempts EXCEPT ![a] =
             IF r.threw THEN Catch(att, r.message)
             ELSE CallNotifySaveComplete(att)]
    /\ UNCHANGED <<query, scene, plyOutput, constructions, initRaised, modeResults, gsConfig, registered, initialized, invoked>>

\* The save-complete POST settles.
Phase3Settles(a, res) ==
    /\ attempts[a].pc = "phase3"
    /\ LET r == notifySaveCompleteResult(res)
           att == [attempts[a] EXCEPT !.responses = Append(@, res)]
       IN  attempts' = [attempts EXCEPT ![a] =
             IF r.threw THEN Catch(att, r.message)
             ELSE CallShowSuccess(att)]
    /\ UNCHANGED <<query, scene, plyOutput, constructions, initRaised, modeResults, gsConfig, registered, initialized, invoked>>

\* showPopup of the success modal settles, inside the try block.
SuccessPopupSettles(a, out) ==
    /\ attempts[a].pc = "popupInfo"
    /\ attempts' = [attempts EXCEPT ![a] =
         LET att == [@ EXCEPT !.popupResults = Append(@, out)]
         IN  IF out.rejected THEN Catch(att, out.message)
             ELSE Finally(att, "returned")]
    /\ UNCHANGED <<query, scene, plyOutput, constructions, initRaised, modeResults, gsConfig, registered, initialized, invoked>>

\* showPopup of the error modal settles, inside the catch block.
ErrorPopupSettles(a, out) ==
    /\ attempts[a].pc = "popupError"
    /\ attempts' = [attempts EXCEPT ![a] =
         LET att == [@ EXCEPT !.popupResults = Append(@, out)]
         IN  IF out.rejected THEN Finally(att, "threw")
             ELSE Finally(att, "returned")]
    /\ UNCHANGED <<query, scene, plyOutput, constructions, initRaised, modeResults, gsConfig, registered, initialized, invoked>>

Next ==
    \/ initGigaScapeIntegration
    \/ Save
    \/ \E a \in AttemptIds, out \in SerializeOutcomes : SerializeSettles(a, out)
    \/ \E a \in AttemptIds : \E res \in Phase1Outcomes(a) : Phase1Settles(a, res)
    \/ \E a \in AttemptIds, res \in Phase2Outcomes : Phase2Settles(a, res)
    \/ \E a \in AttemptIds, res \in Phase3Outcomes : Phase3Settles(a, res)
    \/ \E a \in AttemptIds, out \in PopupOutcomes : SuccessPopupSettles(a, out)
    \/ \E a \in AttemptIds, out \in PopupOutcomes : ErrorPopupSettles(a, out)

Spec == Init /\ [][Next]_vars

\* The life of the config: the same operations with every construction of
\* gsConfig counted. The exported bytes play no part in it and are fixed.
InitLifecycle ==
    /\ Init
    /\ plyOutput = [byteLength |-> 4, bufferLength |-> 4]

NextLifecycle ==
    \/ initGigaScapeIntegrationCounted
    \/ Save
    \/ \E a \in AttemptIds, out \in SerializeOutcomes : SerializeSettles(a, out)
    \/ \E a \in AttemptIds : \E res \in Phase1Outcomes(a) : Phase1Settles(a, res)
    \/ \E a \in AttemptIds, res \in Phase2Outcomes : Phase2Settles(a, res)
    \/ \E a \in AttemptIds, res \in Phase3Outcomes : Phase3Settles(a, res)
    \/ \E a \in AttemptIds, out \in PopupOutcomes : SuccessPopupSettles(a, out)
    \/ \E a \in AttemptIds, out \in PopupOutcomes : ErrorPopupSettles(a, out)

SpecLifecycle == InitLifecycle /\ [][NextLifecycle]_vars

\* Every awaited call of an attempt settles at last: the serializer returns,
\* each fetch resolves or rejects, each showPopup resolves or rejects.
AwaitedCallsSettle ==
    \A a \in AttemptIds :
        /\ WF_vars(\E out \in SerializeOutcomes : SerializeSettles(a, out))
        /\ WF_vars(\E res \in Phase1Outcomes(a) : Phase1Settles(a, res))
        /\ WF_vars(\E res \in Phase2Outcomes : Phase2Settles(a, res))
        /\ WF_vars(\E res \in Phase3Outcomes : Phase3Settles(a, res))
        /\ WF_vars(\E out \in PopupOutcomes : SuccessPopupSettles(a, out))
        /\ WF_vars(\E out \in PopupOutcomes : ErrorPopupSettles(a, out))

FairSpec == InitLifecycle /\ [][Next]_vars /\ AwaitedCallsSettle

\* A call of isGigaScapeMode by the host, at any moment of the page's life.
isGigaScapeModeCall ==
    /\ modeResults' = <<isGigaScapeMode(query)>>
    /\ UNCHANGED <<query, scene, plyOutput, gsConfig, registered, initialized,
                   invoked, attempts, constructions, initRaised>>

\* The program with the host's calls of isGigaScapeMode recorded.
NextMode ==
    \/ Next
    \/ isGigaScapeModeCall

SpecMode == InitLifecycle /\ [][NextMode]_vars


\* ================================================================ claims
Settled(att) == att.pc \in {"returned", "threw"}
Success(res) == ~res.rejected /\ res.status \in 200..299
\* No element of the scene is both visible and non-empty.
NoExportable(sc) == \A i \in 1..Len(sc) : ~(sc[i].visible /\ sc[i].numSplats > 0)

\* C1: in every attempt the requests are gated: the k-th request is the one
\* of phase k, the PUT is issued only after the upload-url POST of the same
\* attempt returned a success response, and the save-complete POST only
\* after the PUT of the same attempt returned a success response; so a
\* non-success at phase 1 leaves the attempt with one request, and a
\* non-success at phase 2 with two.
C1_RequestsGated ==
    \A a \in AttemptIds :
        LET att == attempts[a] IN
        /\ Len(att.requests) <= 3
        /\ \A k \in 1..Len(att.requests) :
             /\ att.requests[k].phase = k
             /\ k > 1 => /\ Len(att.responses) >= k - 1
                         /\ Success(att.responses[k - 1])
        /\ \A k \in 1..Len(att.responses) :
             ~Success(att.responses[k]) => Len(att.requests) = k

\* One attempt was stopped by a 403 at phase 1 and has settled with one
\* request issued; another was stopped by a 500 at phase 2 and has settled
\* with two.
C1_Witness ==
    \E a, b \in AttemptIds :
        /\ Settled(attempts[a])
        /\ Len(attempts[a].responses) = 1
        /\ attempts[a].responses[1].status = 403
        /\ Settled(attempts[b])
        /\ Len(attempts[b].responses) = 2
        /\ attempts[b].responses[2].status = 500

\* C2: every invocation of the handler that has settled, by returning or by
\* throwing, fired exactly startSpinner and then stopSpinner; until then it
\* has fired startSpinner alone.
C2_SpinnerOnceEach ==
    \A a \in AttemptIds :
        LET att == attempts[a] IN
        /\ Settled(att) => att.fired = <<"startSpinner", "stopSpinner">>
        /\ att.pc \notin {"idle", "returned", "threw"} => att.fired = <<"startSpinner">>

\* The success popup rejected, then the error popup rejected too, and the
\* handler threw; the other attempt failed at export and returned.
C2_Witness ==
    \E a, b \in AttemptIds :
        /\ attempts[a].pc = "threw"
        /\ Len(attempts[a].popupResults) = 2
        /\ attempts[b].pc = "returned"
        /\ attempts[b].requests = <<>>

\* C3: every attempt requests exactly one modal, a success modal or an
\* error modal, never two (the statement of the claim; the handler does not
\* keep it when showPopup of the success modal rejects).
C3_ExactlyOneModal ==
    \A a \in AttemptIds :
        /\ Len(attempts[a].modals) <= 1
        /\ Settled(attempts[a]) => Len(attempts[a].modals) = 1

\* C4: with no visible non-empty splat in the scene a started attempt never
\* calls the serializer and issues no request, and the one modal it asks
\* for is the error modal with 'No splats to save'.
C4_EmptySceneFailsFirst ==
    NoExportable(scene) =>
        \A a \in AttemptIds :
            attempts[a].pc # "idle" =>
                /\ attempts[a].serializerCalls = 0
                /\ attempts[a].requests = <<>>
                /\ attempts[a].modals =
                     <<[type |-> "error", header |-> "Save Failed", message |-> "No splats to save"]>>

\* A scene whose only visible splat is empty, saved once and settled.
C4_Witness ==
    /\ scene = <<Splat(TRUE, 0)>>
    /\ \E a \in AttemptIds : Settled(attempts[a])


\* A response with a non-success status (the fetch itself did not reject).
Failure(res) == ~res.rejected /\ res.status \notin 200..299
StatusText(res) == ToString(res.status)
ErrorModalWith(message) == [type |-> "error", header |-> "Save Failed", message |-> message]

C6_ServerMessageShown ==
    \A a \in AttemptIds :
        LET att == attempts[a] IN
        (/\ Len(att.responses) >= 1
         /\ Failure(att.responses[1])
         /\ att.responses[1].body = BodyTokenExpired) =>
            /\ att.modals = <<ErrorModalWith("token expired")>>
            /\ Len(att.requests) = 1
            /\ att.requests[1].method = "POST"

\* Phase 1 answered 403 with {"error":"token expired"} and the attempt settled.
C6_Witness ==
    \E a \in AttemptIds :
        /\ Settled(attempts[a])
        /\ attempts[a].responses = <<Response(403, BodyTokenExpired)>>

\* C7, as claimed: when phase 1 fails and its body does not parse, or
\* parses to an object without an error string, the failure message is
\* "Failed to get upload URL (<status>)".
C7_Original ==
    \A a \in AttemptIds :
        LET att == attempts[a] IN
        (/\ Len(att.responses) >= 1
         /\ Failure(att.responses[1])
         /\ att.responses[1].body \in {BodyNone, BodyEmptyObject}) =>
            att.caught[1] = "Failed to get upload URL (" \o StatusText(att.responses[1]) \o ")"

\* C7, amended: when phase 1 fails with a body that parses to a JSON object
\* with no error member, or an empty one, the failure message, which is
\* the message of the error modal, is "Failed to get upload URL (<status>)";
\* when the body does not parse as JSON it is "HTTP <status>".
C7_Amended ==
    \A a \in AttemptIds :
        LET att == attempts[a] IN
        (Len(att.responses) >= 1 /\ Failure(att.responses[1])) =>
            /\ att.responses[1].body \in {BodyEmptyObject, BodyEmptyError} =>
                 /\ att.caught[1] = "Failed to get upload URL (" \o StatusText(att.responses[1]) \o ")"
                 /\ att.modals = <<ErrorModalWith(att.caught[1])>>
            /\ att.responses[1].body = BodyNone =>
                 /\ att.caught[1] = "HTTP " \o StatusText(att.responses[1])
                 /\ att.modals = <<ErrorModalWith(att.caught[1])>>

\* One attempt failed at phase 1 with a body that does not parse, the other
\* with the empty JSON object.
C7_Witness ==
    \E a, b \in AttemptIds :
        /\ attempts[a].responses = <<Response(403, BodyNone)>>
        /\ attempts[a].modals = <<ErrorModalWith("HTTP 403")>>
        /\ attempts[b].responses = <<Response(500, BodyEmptyObject)>>
        /\ attempts[b].modals = <<ErrorModalWith("Failed to get upload URL (500)")>>

\* C8: when the PUT returns a non-success status with a body that does not
\* parse, the one modal of the attempt is the error modal with
\* "Upload to GCS failed (<status>)"; for a 500, "Upload to GCS failed (500)".
C8_UploadFailureMessage ==
    \A a \in AttemptIds :
        LET att == attempts[a] IN
        (/\ Len(att.responses) >= 2
         /\ Failure(att.responses[2])
         /\ att.responses[2].body = BodyNone) =>
            /\ att.modals = <<ErrorModalWith("Upload to GCS failed (" \o StatusText(att.responses[2]) \o ")")>>
            /\ att.responses[2].status = 500 =>
                 att.modals[1].message = "Upload to GCS failed (500)"

\* The PUT answered 500 with no body and the attempt settled.
C8_Witness ==
    \E a \in AttemptIds :
        /\ Settled(attempts[a])
        /\ Len(attempts[a].responses) = 2
        /\ attempts[a].responses[2] = Response(500, BodyNone)

\* The templated message of a phase.
PhaseTemplate(k, res) ==
    (CASE k = 1 -> "Failed to get upload URL"
       [] k = 2 -> "Upload to GCS failed"
       [] OTHER -> "Save notification failed") \o " (" \o StatusText(res) \o ")"

\* C9, as claimed: in every phase a non-success response fails the attempt
\* with the server-supplied error string when the response carries one, and
\* otherwise with a message that embeds the status code.
C9_Original ==
    \A a \in AttemptIds :
        LET att == attempts[a] IN
        \A k \in 1..Len(att.responses) :
            Failure(att.responses[k]) =>
                IF att.responses[k].body = BodyTokenExpired
                THEN att.caught[1] = "token expired"
                ELSE att.caught[1] \in {PhaseTemplate(k, att.responses[k]),
                                        "HTTP " \o StatusText(att.responses[k])}

\* C9, amended: phases 1 and 3 apply one rule: the failure message is the
\* server-supplied error string when the JSON body carries a non-empty one,
\* "HTTP <status>" when the body does not parse, and the phase's template
\* with the status otherwise. Phase 2 never reads the body: its failure
\* message is always "Upload to GCS failed (<status>)".
C9_Amended ==
    \A a \in AttemptIds :
        LET att == attempts[a] IN
        \A k \in 1..Len(att.responses) :
            LET res == att.responses[k] IN
            Failure(res) =>
                /\ Len(att.responses) = k
                /\ att.caught[1] =
                     (CASE k = 2 -> "Upload to GCS failed (" \o StatusText(res) \o ")"
                        [] k # 2 /\ res.body = BodyTokenExpired -> "token expired"
                        [] k # 2 /\ res.body = BodyNone -> "HTTP " \o StatusText(res)
                        [] OTHER -> PhaseTemplate(k, res))

\* One attempt failed at phase 2 and the other at phase 3, both with a body
\* carrying "token expired".
C9_Witness ==
    \E a, b \in AttemptIds :
        /\ Len(attempts[a].responses) = 2
        /\ attempts[a].responses[2] = Response(403, BodyTokenExpired)
        /\ attempts[a].caught = <<"Upload to GCS failed (403)">>
        /\ Len(attempts[b].responses) = 3
        /\ attempts[b].responses[3] = Response(403, BodyTokenExpired)
        /\ attempts[b].caught = <<"token expired">>

\* C10: in every state where the module-level config is null, whether the
\* key is missing or its value empty, undecodable, unparseable or short of
\* a required field, no attempt has issued a request, asked for a modal or
\* fired an event: invocations of the save action reach no handler.
C10_NoConfigNoEffect ==
    gsConfig.t = "null" =>
        \A a \in AttemptIds :
            /\ attempts[a].requests = <<>>
            /\ attempts[a].modals = <<>>
            /\ attempts[a].fired = <<>>

\* The key is present with a config that lacks authToken, the integration
\* was initialised, and the host invoked the save action.
C10_Witness ==
    /\ initialized
    /\ query = [has |-> TRUE, value |-> CfgNoToken]
    /\ gsConfig.t = "null"
    /\ invoked >= 1


\* How far the handler has come: the pipeline states in order, and past
\* them (Complete or Failed, the modal and the finally block).
Progress(att) ==
    CASE att.pc = "idle" -> 0
      [] att.pc = "serializing" -> 1
      [] att.pc = "phase1" -> 2
      [] att.pc = "phase2" -> 3
      [] att.pc = "phase3" -> 4
      [] OTHER -> 5
\* The catch block has run.
Failed(att) == att.caught # <<>>

\* C11: in every step of every attempt the state never moves back, it moves
\* forward one state at a time unless the attempt fails, the requests
\* issued so far stay as they are and at most one is added, no two requests
\* of an attempt are of the same phase, and a failed attempt stays failed
\* and issues no further request.
C11_NoRetryNoWayBack ==
    [][\A a \in AttemptIds :
          LET old == attempts[a]
              new == attempts'[a]
          IN  /\ Progress(new) >= Progress(old)
              /\ Progress(new) > Progress(old) + 1 => Failed(new)
              /\ Len(new.requests) \in {Len(old.requests), Len(old.requests) + 1}
              /\ SubSeq(new.requests, 1, Len(old.requests)) = old.requests
              /\ \A i, j \in 1..Len(new.requests) :
                   i # j => new.requests[i].phase # new.requests[j].phase
              /\ Failed(old) => (Failed(new) /\ new.requests = old.requests)
      ]_vars

\* An attempt that failed at phase 3 with a 500 has settled with its three
\* requests, while another failed at phase 1 and shows its error.
C11_Witness ==
    \E a, b \in AttemptIds :
        /\ Settled(attempts[a])
        /\ Len(attempts[a].requests) = 3
        /\ attempts[a].responses[3].status = 500
        /\ attempts[b].pc = "popupError"
        /\ Len(attempts[b].requests) = 1


\* C12, as claimed: the module-level config is constructed at most once in
\* a page load, over any sequence of calls and invocations.
C12_Original == constructions <= 1

\* C12, amended: gsConfig is written by initGigaScapeIntegration alone,
\* which constructs it anew on every call; no step of a save attempt writes
\* it; and with the page's query string unchanged every call constructs
\* the same value, so once resolved the value never changes.
C12_Amended ==
    [][/\ constructions' # constructions =>
            (constructions' = constructions + 1 /\ gsConfig' = parseGsConfig(query))
       /\ gsConfig' # gsConfig => constructions' # constructions
       /\ gsConfig.t # "null" => gsConfig' = gsConfig
       /\ (invoked' # invoked \/ attempts' # attempts) => constructions' = constructions
      ]_vars

\* The config was constructed a second time while an attempt was in flight,
\* and is the value of the first construction.
C12_Witness ==
    /\ constructions = 2
    /\ gsConfig = Obj([splatId |-> "s1", userId |-> "u1", apiOrigin |-> "https://api.gs", authToken |-> "tok"])
    /\ \E a \in AttemptIds : attempts[a].pc = "phase2"


\* The values of the key that do not decode, do not parse, or lack a
\* required field.
BadQueryValues == {CfgNotBase64, CfgNotJson, CfgNull, CfgNoToken, CfgEmptySplatId, CfgNoOrigin}

\* C13: for every value of the key that cannot be base64-decoded, cannot be
\* parsed as JSON, or decodes to an object with splatId, apiOrigin or
\* authToken missing or falsy, the resolver returns null and raises
\* nothing, and once initGigaScapeIntegration has run the config is null
\* and no save handler is registered.
C13_ResolverFailsSoft ==
    (query.has /\ query.value \in BadQueryValues) =>
        /\ parseGsConfig(query) = NullValue
        /\ ~parseGsConfigCall(query).raised
        /\ ~initRaised
        /\ initialized => (gsConfig = NullValue /\ ~registered)

\* The key holds the JSON text null, whose member reads throw inside the try
\* block, and the integration was initialised.
C13_Witness ==
    /\ initialized
    /\ query = [has |-> TRUE, value |-> CfgNull]
    /\ ~registered


\* C14: every call of isGigaScapeMode returns true exactly when the key
\* gsConfig is present in the URL, whatever its value (empty, undecodable,
\* invalid or valid), whether or not initGigaScapeIntegration has run and
\* whatever the config holds; the call changes nothing of the module.
C14_ModeIffKeyPresent ==
    /\ [](modeResults # <<>> => modeResults = <<query.has>>)
    /\ [][modeResults' # modeResults =>
            /\ modeResults' = <<query.has>>
            /\ UNCHANGED <<gsConfig, registered, initialized, invoked, attempts>>]_vars

\* isGigaScapeMode answered true before initGigaScapeIntegration ran, for a
\* key whose value cannot be decoded.
C14_Witness ==
    /\ modeResults = <<TRUE>>
    /\ ~initialized
    /\ query = [has |-> TRUE, value |-> CfgNotBase64]


InNetworkPhase(att) == att.pc \in {"phase1", "phase2", "phase3"}

\* C15: there is no at-most-one-in-flight guard: every invocation of the
\* save action with a registered handler starts its own attempt (spinner
\* started, export begun) whatever the other attempts are doing, and leaves
\* the other attempts as they are, so that two attempts can be in flight
\* together and the first to finish fires stopSpinner while the other still
\* awaits a response.
C15_NoInFlightGuard ==
    [][(invoked' # invoked /\ registered) =>
          /\ invoked' = invoked + 1
          /\ attempts'[invoked'].fired = <<"startSpinner">>
          /\ attempts'[invoked'].pc # "idle"
          /\ \A b \in AttemptIds \ {invoked'} : attempts'[b] = attempts[b]]_vars

\* The second attempt, invoked while the first was in flight, has gone
\* through its three phases and fired stopSpinner while the first still
\* awaits a network response.
C15_Witness ==
    /\ InNetworkPhase(attempts[1])
    /\ Settled(attempts[2])
    /\ Len(attempts[2].responses) = 3
    /\ attempts[2].fired = <<"startSpinner", "stopSpinner">>


\* C16: when every awaited call of an attempt settles at last, every started
\* attempt at last settles (returned after a success, or after an error was
\* caught) with stopSpinner fired; and an attempt that awaits a network
\* response has shown no modal, has not fired stopSpinner, has exactly one
\* request without a response, and changes only by that response arriving:
\* while the call does not settle the attempt stays where it is.
C16_TerminationByAwaitedCalls ==
    /\ \A a \in AttemptIds :
          (attempts[a].pc # "idle") ~>
              (Settled(attempts[a]) /\ attempts[a].fired = <<"startSpinner", "stopSpinner">>)
    /\ [](\A a \in AttemptIds :
            InNetworkPhase(attempts[a]) =>
                /\ attempts[a].modals = <<>>
                /\ attempts[a].fired = <<"startSpinner">>
                /\ Len(attempts[a].requests) = Len(attempts[a].responses) + 1)
    /\ [][\A a \in AttemptIds :
            (InNetworkPhase(attempts[a]) /\ attempts'[a] # attempts[a]) =>
                Len(attempts'[a].responses) = Len(attempts[a].responses) + 1]_vars

\* One attempt has settled after its three network calls and its modal,
\* the other still awaits the response to its upload.
C16_Witness ==
    \E a, b \in AttemptIds :
        /\ Settled(attempts[a])
        /\ Len(attempts[a].responses) = 3
        /\ Len(attempts[a].popupResults) = 1
        /\ attempts[b].pc = "phase2"
        /\ attempts[b].fired = <<"startSpinner">>


\* C17: in every attempt the phase 2 PUT sends as many bytes as the phase 1
\* request declared in fileSize, also when the exported artifact is a view
\* over part of a larger buffer (the statement of the claim; uploadToGcs
\* sends data.buffer, the whole underlying buffer, and does not keep it).
C17_PutBytesEqualFileSize ==
    \A a \in AttemptIds :
        Len(attempts[a].requests) >= 2 =>
            attempts[a].requests[2].body.bytes = attempts[a].requests[1].body.fileSize


\* C18: a request carries an Authorization header only in phase 1 and phase
\* 3, where it is "Bearer <authToken>" of the config and the URL is the
\* upload-url or the save-complete endpoint of the config's apiOrigin; the
\* phase 2 PUT goes to the uploadUrl of the attempt's ticket with no
\* Authorization header and no field of the config in its body.
C18_TokenOnlyToApiOrigin ==
    \A a \in AttemptIds :
        \A i \in DOMAIN attempts[a].requests :
            LET r == attempts[a].requests[i]
            IN  /\ r.phase = 2 =>
                      /\ r.auth = NoAuth
                      /\ r.url = attempts[a].uploadUrl
                      /\ r.body.splatId = Undefined
                /\ r.auth # NoAuth =>
                      /\ r.phase \in {1, 3}
                      /\ r.auth = "Bearer " \o Member(gsConfig, "authToken")
                      /\ r.url \in {Member(gsConfig, "apiOrigin") \o "/api/supersplat/upload-url",
                                    Member(gsConfig, "apiOrigin") \o "/api/supersplat/save-complete"}
                /\ r.phase \in {1, 3} => r.auth # NoAuth

\* An attempt sent its three requests: the two POSTs with the bearer token,
\* the PUT to the ticket's URL without it.
C18_Witness ==
    \E a \in AttemptIds :
        /\ Len(attempts[a].requests) = 3
        /\ attempts[a].requests[1].auth = "Bearer tok"
        /\ attempts[a].requests[2].url = TicketUrl(a)
        /\ attempts[a].requests[2].auth = NoAuth
        /\ attempts[a].requests[3].auth = "Bearer tok"


\* The export of a started attempt failed (no artifact was obtained), or one
\* of its network calls failed: the fetch rejected, the status was not 2xx,
\* or the ticket of the upload-url response could not be read.
ExportOrPhaseFailed(att) ==
    \/ att.pc \notin {"idle", "serializing"} /\ att.data = NoData
    \/ \E k \in DOMAIN att.responses : ~Success(att.responses[k])
    \/ Len(att.responses) >= 1 /\ JsonParse(att.responses[1].body).threw

\* C19: an attempt asks for the success modal only when its export produced
\* an artifact and its three network calls all returned a success, the
\* save-complete POST included, and then as its first modal; an attempt
\* whose export or any phase failed asks for exactly one modal, the error
\* modal, and never for the success modal.
C19_SuccessModalOnlyAfterAllSucceeded ==
    \A a \in AttemptIds :
        LET att == attempts[a] IN
        /\ (\E i \in DOMAIN att.modals : att.modals[i].type = "info") =>
              /\ att.modals[1].header = "Saved to GigaScape"
              /\ \A i \in DOMAIN att.modals : i > 1 => att.modals[i].type = "error"
              /\ att.data # NoData
              /\ Len(att.responses) = 3
              /\ \A k \in 1..3 : Success(att.responses[k])
              /\ ~ExportOrPhaseFailed(att)
        /\ ExportOrPhaseFailed(att) =>
              /\ Len(att.modals) = 1
              /\ att.modals[1].type = "error"
              /\ att.modals[1].header = "Save Failed"

\* One attempt shows the success modal after three successes while another,
\* whose PUT was rejected by the network, shows the error modal.
C19_Witness ==
    \E a, b \in AttemptIds :
        /\ attempts[a].pc = "popupInfo"
        /\ attempts[a].modals = <<SuccessModal>>
        /\ Len(attempts[b].responses) = 2
        /\ attempts[b].responses[2].rejected
        /\ attempts[b].pc = "popupError"


\* C20: in every attempt stopSpinner has fired only when every showPopup the
\* attempt invoked has settled, at least one was invoked, and the handler is
\* over; while a showPopup is pending, after the network phases, only
\* startSpinner has fired; so no modal is requested after stopSpinner.
C20_StopSpinnerAfterLastPopup ==
    \A a \in AttemptIds :
        LET att == attempts[a]
            stopped == \E i \in DOMAIN att.fired : att.fired[i] = "stopSpinner"
        IN  /\ stopped =>
                  /\ Settled(att)
                  /\ Len(att.modals) >= 1
                  /\ Len(att.popupResults) = Len(att.modals)
            /\ att.pc \in {"popupInfo", "popupError"} =>
                  /\ att.fired = <<"startSpinner">>
                  /\ Len(att.popupResults) = Len(att.modals) - 1
            /\ Settled(att) => stopped

\* An attempt whose success modal was rejected and whose error modal then
\* settled has fired stopSpinner after its second showPopup, while another
\* attempt holds the spinner with its error modal open.
C20_Witness ==
    \E a, b \in AttemptIds :
        /\ Settled(attempts[a])
        /\ Len(attempts[a].modals) = 2
        /\ Len(attempts[a].popupResults) = 2
        /\ attempts[a].fired = <<"startSpinner", "stopSpinner">>
        /\ attempts[b].pc = "popupError"
        /\ attempts[b].fired = <<"startSpinner">>

====
